---- MODULE Spec2Model ----
(***************************************************************************)
(* The ADC driver of src/drivers/adc/ADC.cpp: the ADC work item            *)
(* (constructor, destructor, init, Run, sample, test), the command         *)
(* surface (task_spawn, custom_command, print_usage) and the module        *)
(* framework that dispatches the commands and owns _object and _task_id.   *)
(*                                                                         *)
(* Threads.  Shell threads issue the commands; the framework runs each     *)
(* command under the module lock.  One work-queue thread delivers the      *)
(* periodic ticks to ADC::Run, one invocation at a time.                   *)
(***************************************************************************)
EXTENDS Integers, Sequences, FiniteSets, TLC

(***************************************************************************)
(* Sizes.  The driver is written against the symbolic sizes                *)
(* ADC_TOTAL_CHANNELS (channel universe) and PX4_MAX_ADC_CHANNELS (report  *)
(* capacity); the model keeps them symbolic and small.                     *)
(***************************************************************************)
ADC_TOTAL_CHANNELS == 11

PX4_MAX_ADC_CHANNELS == 4

\* Number of addresses at which operator new can place an ADC object; a
\* freed address is used again.
MaxInstances == 2

\* sizeof(adc.channel_id) / sizeof(adc.channel_id[0])
ReportCapacity == PX4_MAX_ADC_CHANNELS

\* A uint32_t value is kept as its two 16-bit halves << high, low >>.
UINT32_MAX == << 65535, 65535 >>

PX4_OK == 0

PX4_ERROR == -1

task_id_is_work_queue == -2

BUILTIN_ADC_DEVID == 1

\* The iteration count of the loop of ADC::test.
TestIterations == 20

nullptr == 0

\* The period of the sampling, kept symbolic.
kINTERVAL == "kINTERVAL"

Threads == {"sh1", "sh2"}

Verbs == {"start", "stop", "test", "calibrate"}

Ids == 1..MaxInstances

(***************************************************************************)
(* Bit masks: a uint32_t mask is kept as its 32 bits.                      *)
(***************************************************************************)
Bits == 0..31

\* m & (1 << i)
BitSet(m, i) == m[i]

\* a | b
BitOr(a, b) == [ i \in Bits |-> a[i] \/ b[i] ]

MaskOf(S) == [ i \in Bits |-> i \in S ]

\* The boards: the requested mask ADC_CHANNELS and the arch's temperature
\* sensor mask.
RequestedMasks ==
    { MaskOf({2, 5}), MaskOf({1, 2, 5, 10}), MaskOf({0, 1, 2, 3, 4}) }

TempSensorMasks == { MaskOf({10}) }

\* What px4_arch_adc_sample can return: a conversion result or the timeout
\* sentinel.
SampleValues == { << 0, 1000 >>, UINT32_MAX }

\* Number of reads that time out in one behaviour.
MaxTimeouts == 1

\* What px4_arch_adc_init can return.
InitResults == { 0, -1 }

(***************************************************************************)
(* ADC::ADC: count the set bits, allocate, prefill the channel numbers.    *)
(* The allocation of the sample array (line 56) is taken to succeed.       *)
(***************************************************************************)
RECURSIVE CountBits(_, _)
CountBits(channels, i) ==
    IF i >= ADC_TOTAL_CHANNELS THEN 0
    ELSE (IF BitSet(channels, i) THEN 1 ELSE 0) + CountBits(channels, i + 1)

RECURSIVE Prefill(_, _)
Prefill(channels, i) ==
    IF i >= ADC_TOTAL_CHANNELS THEN << >>
    ELSE (IF BitSet(channels, i)
          THEN << [am_channel |-> i, am_data |-> << 0, 0 >>] >>
          ELSE << >>) \o Prefill(channels, i + 1)

\* ADC_ctor without line 43: the temperature sensor is not forced on.
ADC_ctor_no_temp(requested, temp_mask) ==
    [ st                |-> "live",
      _channel_count    |-> CountBits(requested, 0),
      _samples          |-> Prefill(requested, 0),
      too_small_logged  |-> CountBits(requested, 0) > PX4_MAX_ADC_CHANNELS,
      scheduled         |-> FALSE,
      delay_us          |-> "none",
      interval_us       |-> "none",
      _task_should_exit |-> FALSE,
      hw                |-> "none",
      teardown          |-> << >>,
      uninits           |-> 0 ]

\* ADC_ctor clamping the count and the allocation to PX4_MAX_ADC_CHANNELS
\* after the error of lines 52-54.
ADC_ctor_clamped(requested, temp_mask) ==
    LET channels == BitOr(requested, temp_mask)
        count    == IF CountBits(channels, 0) > PX4_MAX_ADC_CHANNELS
                    THEN PX4_MAX_ADC_CHANNELS ELSE CountBits(channels, 0)
    IN  [ st                |-> "live",
          _channel_count    |-> count,
          _samples          |-> SubSeq(Prefill(channels, 0), 1, count),
          too_small_logged  |-> CountBits(channels, 0) > PX4_MAX_ADC_CHANNELS,
          scheduled         |-> FALSE,
          delay_us          |-> "none",
          interval_us       |-> "none",
          _task_should_exit |-> FALSE,
          hw                |-> "none",
          teardown          |-> << >>,
          uninits           |-> 0 ]

ADC_ctor(requested, temp_mask) ==
    LET channels == BitOr(requested, temp_mask)
    IN  [ st                |-> "live",
          _channel_count    |-> CountBits(channels, 0),
          _samples          |-> Prefill(channels, 0),
          too_small_logged  |-> CountBits(channels, 0) > PX4_MAX_ADC_CHANNELS,
          scheduled         |-> FALSE,
          delay_us          |-> "none",
          interval_us       |-> "none",
          _task_should_exit |-> FALSE,
          hw                |-> "none",
          teardown          |-> << >>,
          uninits           |-> 0 ]

Unallocated ==
    [ st                |-> "unalloc",
      _channel_count    |-> 0,
      _samples          |-> << >>,
      too_small_logged  |-> FALSE,
      scheduled         |-> FALSE,
      delay_us          |-> "none",
      interval_us       |-> "none",
      _task_should_exit |-> FALSE,
      hw                |-> "none",
      teardown          |-> << >>,
      uninits           |-> 0 ]

(***************************************************************************)
(* ADC::~ADC: ScheduleClear, delete _samples, perf_free,                   *)
(* px4_arch_adc_uninit, in this order (teardown keeps the order).          *)
(***************************************************************************)
\* ~ADC without the ScheduleClear of line 74.
ADC_dtor_keeps_schedule(o) ==
    [ o EXCEPT !.st = "deleted",
               !._samples = << >>,
               !._channel_count = 0,
               !.hw = "uninit",
               !.teardown = << "delete _samples", "perf_free",
                               "px4_arch_adc_uninit" >>,
               !.uninits = @ + 1 ]

ADC_dtor(o) ==
    [ o EXCEPT !.st = "deleted",
               !.scheduled = FALSE,
               !.delay_us = "none",
               !.interval_us = "none",
               !._samples = << >>,
               !._channel_count = 0,
               !.hw = "uninit",
               !.teardown = << "ScheduleClear", "delete _samples", "perf_free",
                               "px4_arch_adc_uninit" >>,
               !.uninits = @ + 1 ]

\* delete p, for p possibly nullptr
Delete(heap, p) ==
    IF p = nullptr THEN heap ELSE [heap EXCEPT ![p] = ADC_dtor(heap[p])]

VARIABLES
    board,        \* [ADC_CHANNELS, temp_sensor_mask]: fixed per build
    objs,         \* the ADC objects, by address
    _object,      \* ModuleBase<ADC>::_object
    _task_id,     \* ModuleBase<ADC>::_task_id
    lock,         \* holder of the module lock: a shell thread, or "free"
    cpc,          \* where each shell thread is in its command
    loc,          \* the locals of the command that holds the module lock
    last,         \* the command that returned last (none once a longer one has begun)
    wq,           \* the work-queue thread: position in ADC::Run and its locals
    adc_report,   \* the uORB topic adc_report: the latest published report
    timeouts      \* reads that have timed out so far

vars == << board, objs, _object, _task_id, lock, cpc, loc, last, wq,
           adc_report, timeouts >>

NoReport ==
    [ none |-> TRUE, device_id |-> 0, channel_id |-> << >>, raw_data |-> << >> ]

\* instance: task_spawn's local, or the object test() runs on.  sub, l,
\* failed: ADC::test's subscription adc_sub_test ("none": not subscribed;
\* "fresh": a publication it has not copied; "copied"), its loop counter,
\* and whether an iteration printed "ADC test failed".
NoLocals == [ instance |-> nullptr, sub |-> "none", l |-> 0, failed |-> FALSE ]

NoCmd == [ verb |-> "none", ret |-> 0, msg |-> "none", seq |-> 0 ]

WqIdle == [ pc |-> "idle", self |-> nullptr, i |-> 0, reads |-> << >> ]

Init ==
    /\ board \in [ ADC_CHANNELS : RequestedMasks, temp_sensor_mask : TempSensorMasks ]
    /\ objs = [ id \in Ids |-> Unallocated ]
    /\ _object = nullptr
    /\ _task_id = -1
    /\ lock = "free"
    /\ cpc = [ t \in Threads |-> "idle" ]
    /\ loc = NoLocals
    /\ last = NoCmd
    /\ wq = WqIdle
    /\ adc_report = NoReport
    /\ timeouts = 0

(***************************************************************************)
(* ModuleBase<ADC>: is_running, and the end of a command (the module lock  *)
(* is released and main returns ret).                                      *)
(***************************************************************************)
is_running == _task_id # -1

Finish(t, verb, ret, msg) ==
    /\ cpc' = [cpc EXCEPT ![t] = "idle"]
    /\ last' = [ verb |-> verb, ret |-> ret, msg |-> msg, seq |-> 1 - last.seq ]
    /\ loc' = IF lock = t THEN NoLocals ELSE loc
    /\ lock' = IF lock = t THEN "free" ELSE lock

(***************************************************************************)
(* ADC::init                                                               *)
(***************************************************************************)
\* ScheduleOnInterval(interval_us, delay_us)
ScheduleOnInterval(o, interval_us, delay_us) ==
    [ o EXCEPT !.scheduled = TRUE, !.interval_us = interval_us, !.delay_us = delay_us ]

\* ADC::init with ScheduleOnInterval placed before the check of ret_init.
ADC_init_schedules_first(o, ret_init) ==
    IF ret_init < 0
    THEN [ obj |-> ScheduleOnInterval([o EXCEPT !.hw = "failed"], kINTERVAL, kINTERVAL),
           ret |-> ret_init ]
    ELSE [ obj |-> ScheduleOnInterval([o EXCEPT !.hw = "ok"], kINTERVAL, kINTERVAL),
           ret |-> PX4_OK ]

\* ADC::init scheduling its first run at once: ScheduleOnInterval(kINTERVAL).
ADC_init_no_delay(o, ret_init) ==
    IF ret_init < 0
    THEN [ obj |-> [o EXCEPT !.hw = "failed"], ret |-> ret_init ]
    ELSE [ obj |-> ScheduleOnInterval([o EXCEPT !.hw = "ok"], kINTERVAL, "0"),
           ret |-> PX4_OK ]

ADC_init(o, ret_init) ==
    IF ret_init < 0
    THEN [ obj |-> [o EXCEPT !.hw = "failed"], ret |-> ret_init ]
    ELSE [ obj |-> ScheduleOnInterval([o EXCEPT !.hw = "ok"], kINTERVAL, kINTERVAL),
           ret |-> PX4_OK ]

(***************************************************************************)
(* ADC::task_spawn, in three steps: construct and store the instance;      *)
(* instance->init(); the failure path.                                     *)
(***************************************************************************)
\* operator new: the lowest address that holds no live object
FreshId ==
    CHOOSE id \in Ids :
        /\ objs[id].st # "live"
        /\ \A j \in Ids : objs[j].st # "live" => id <= j

task_spawn(t) ==
    \E alloc_ok \in BOOLEAN :
        IF alloc_ok
        THEN /\ objs' = [objs EXCEPT ![FreshId] =
                            ADC_ctor(board.ADC_CHANNELS, board.temp_sensor_mask)]
             /\ _object' = FreshId
             /\ _task_id' = task_id_is_work_queue
             /\ lock' = t
             /\ cpc' = [cpc EXCEPT ![t] = "spawn_init"]
             /\ loc' = [NoLocals EXCEPT !.instance = FreshId]
             /\ last' = NoCmd
        ELSE /\ objs' = Delete(objs, nullptr)
             /\ _object' = nullptr
             /\ _task_id' = -1
             /\ Finish(t, "start", PX4_ERROR, "alloc failed")

\* instance->init() of line 211, up to its return statement: from
\* ScheduleOnInterval on the work queue may run the item, whether or not
\* init() has returned.
task_spawn_init(t) ==
    /\ cpc[t] = "spawn_init"
    /\ \E ret_init \in InitResults :
          LET r == ADC_init(objs[loc.instance], ret_init) IN
          /\ objs' = [objs EXCEPT ![loc.instance] = r.obj]
          /\ cpc' = [cpc EXCEPT ![t] = IF r.ret = PX4_OK THEN "spawn_ok"
                                                         ELSE "spawn_fail"]
    /\ UNCHANGED << board, _object, _task_id, lock, loc, last, wq, adc_report,
                    timeouts >>

\* init() returns PX4_OK (line 96) and task_spawn returns it (lines 211-212).
task_spawn_ok(t) ==
    /\ cpc[t] = "spawn_ok"
    /\ Finish(t, "start", PX4_OK, "none")
    /\ UNCHANGED << board, objs, _object, _task_id, wq, adc_report, timeouts >>

\* task_spawn deleting the instance whose init failed without the
\* _object.store(nullptr) and _task_id = -1 of lines 220-221.
task_spawn_fail_keeps_reference(t) ==
    /\ cpc[t] = "spawn_fail"
    /\ objs' = Delete(objs, loc.instance)
    /\ UNCHANGED << _object, _task_id >>
    /\ Finish(t, "start", PX4_ERROR, "arch adc init failed")
    /\ UNCHANGED << board, wq, adc_report, timeouts >>

task_spawn_fail(t) ==
    /\ cpc[t] = "spawn_fail"
    /\ objs' = Delete(objs, loc.instance)
    /\ _object' = nullptr
    /\ _task_id' = -1
    /\ Finish(t, "start", PX4_ERROR, "arch adc init failed")
    /\ UNCHANGED << board, wq, adc_report, timeouts >>

(***************************************************************************)
(* ModuleBase<ADC>::start_command_base                                     *)
(***************************************************************************)
\* start_command_base without the check of is_running.
start_command_base_unguarded(t) ==
    /\ cpc[t] = "idle"
    /\ lock = "free"
    /\ \E id \in Ids : objs[id].st # "live"
    /\ task_spawn(t)
    /\ UNCHANGED << board, wq, adc_report, timeouts >>

start_command_base(t) ==
    /\ cpc[t] = "idle"
    /\ lock = "free"
    /\ \E id \in Ids : objs[id].st # "live"
    /\ IF is_running
       THEN /\ Finish(t, "start", -1, "Task already running")
            /\ UNCHANGED << objs, _object, _task_id >>
       ELSE task_spawn(t)
    /\ UNCHANGED << board, wq, adc_report, timeouts >>

(***************************************************************************)
(* ADC::print_usage and ADC::custom_command                                *)
(***************************************************************************)
print_usage(reason) == [ ret |-> 0, msg |-> reason ]

\* custom_command without the check of is_running at line 193.
custom_command_no_check(t, verb) ==
    IF verb = "test"
    THEN /\ lock' = t
         /\ cpc' = [cpc EXCEPT ![t] = "test_sleep"]
         /\ loc' = [NoLocals EXCEPT
                       !.instance = _object,
                       !.sub = IF adc_report.none THEN "copied" ELSE "fresh"]
         /\ last' = NoCmd
    ELSE Finish(t, verb, print_usage("unknown command").ret,
                print_usage("unknown command").msg)

custom_command(t, verb) ==
    IF verb = "test"
    THEN IF is_running
         THEN \* _object.load()->test(): adc_sub_test is constructed
              /\ lock' = t
              /\ cpc' = [cpc EXCEPT ![t] = "test_sleep"]
              /\ loc' = [NoLocals EXCEPT
                            !.instance = _object,
                            !.sub = IF adc_report.none THEN "copied" ELSE "fresh"]
              /\ last' = NoCmd
         ELSE Finish(t, verb, PX4_ERROR, "none")
    ELSE Finish(t, verb, print_usage("unknown command").ret,
                print_usage("unknown command").msg)

\* ModuleBase<ADC>::main for a verb that is neither start nor stop
main_custom(t) ==
    /\ cpc[t] = "idle"
    /\ lock = "free"
    /\ \E verb \in Verbs \ {"start", "stop"} : custom_command(t, verb)
    /\ UNCHANGED << board, objs, _object, _task_id, wq, adc_report, timeouts >>

(***************************************************************************)
(* ADC::test after the subscription: the first update, the loop of         *)
(* TestIterations polls, the return.                                       *)
(***************************************************************************)
\* ADC::test with an update() that takes the report off the topic.
test_first_update_consumes(t) ==
    /\ cpc[t] = "test_sleep"
    /\ IF loc.sub = "fresh"
       THEN /\ loc' = [loc EXCEPT !.sub = "copied"]
            /\ cpc' = [cpc EXCEPT ![t] = "test_loop"]
            /\ adc_report' = NoReport
            /\ UNCHANGED << last, lock >>
       ELSE Finish(t, "test", 1, "none") /\ UNCHANGED adc_report
    /\ UNCHANGED << board, objs, _object, _task_id, wq, timeouts >>

test_first_update(t) ==
    /\ cpc[t] = "test_sleep"
    /\ IF loc.sub = "fresh"
       THEN /\ loc' = [loc EXCEPT !.sub = "copied"]
            /\ cpc' = [cpc EXCEPT ![t] = "test_loop"]
            /\ UNCHANGED << last, lock >>
       ELSE Finish(t, "test", 1, "none")
    /\ UNCHANGED << board, objs, _object, _task_id, wq, adc_report, timeouts >>

\* ADC::test giving up with a non-zero return at the first poll that fails.
test_iteration_aborts(t) ==
    /\ cpc[t] = "test_loop"
    /\ IF loc.l < TestIterations
       THEN IF loc.sub = "fresh"
            THEN /\ loc' = [loc EXCEPT !.l = @ + 1, !.sub = "copied"]
                 /\ UNCHANGED << cpc, last, lock >>
            ELSE Finish(t, "test", 1, "ADC test failed.")
       ELSE Finish(t, "test", 0, "ADC test successful.")
    /\ UNCHANGED << board, objs, _object, _task_id, wq, adc_report, timeouts >>

test_iteration(t) ==
    /\ cpc[t] = "test_loop"
    /\ IF loc.l < TestIterations
       THEN /\ loc' = [loc EXCEPT
                         !.l = @ + 1,
                         !.failed = IF loc.sub = "fresh" THEN @ ELSE TRUE,
                         !.sub = "copied"]
            /\ UNCHANGED << cpc, last, lock >>
       ELSE Finish(t, "test", 0,
                   IF loc.failed THEN "ADC test failed. ADC test successful."
                                 ELSE "ADC test successful.")
    /\ UNCHANGED << board, objs, _object, _task_id, wq, adc_report, timeouts >>

(***************************************************************************)
(* ModuleBase<ADC>::stop_command: request_stop, then wait, the lock        *)
(* released, until the work item has cleaned up.  The wait is taken to     *)
(* outlast the work item's next tick: a stop that gives up waiting and     *)
(* deletes the object itself is not modelled.                              *)
(***************************************************************************)
stop_command(t) ==
    /\ cpc[t] = "idle"
    /\ lock = "free"
    /\ IF is_running
       THEN IF _object # nullptr
            THEN /\ objs' = [objs EXCEPT ![_object]._task_should_exit = TRUE]
                 /\ cpc' = [cpc EXCEPT ![t] = "stop_wait"]
                 /\ last' = NoCmd
                 /\ UNCHANGED << lock, loc, _task_id >>
            ELSE /\ _task_id' = -1
                 /\ Finish(t, "stop", 0, "none")
                 /\ UNCHANGED objs
       ELSE /\ Finish(t, "stop", 0, "none")
            /\ UNCHANGED << objs, _task_id >>
    /\ UNCHANGED << board, _object, wq, adc_report, timeouts >>

stop_wait(t) ==
    /\ cpc[t] = "stop_wait"
    /\ lock = "free"
    /\ _task_id = -1
    /\ Finish(t, "stop", 0, "none")
    /\ UNCHANGED << board, objs, _object, _task_id, wq, adc_report, timeouts >>

(***************************************************************************)
(* ADC::sample and ADC::Run.  A tick starts Run on a scheduled work item;  *)
(* Run reads the channels one by one, builds the report and publishes it.  *)
(***************************************************************************)
\* ADC::sample turning a timeout into a reading of 0.
sample_drops_timeout(result) ==
    [ value |-> IF result = UINT32_MAX THEN << 0, 0 >> ELSE result,
      timeout_logged |-> result = UINT32_MAX ]

\* ADC::sample: the value px4_arch_adc_sample returned, and whether
\* "sample timeout" is logged.
sample(result) == [ value |-> result, timeout_logged |-> result = UINT32_MAX ]

\* The clamp of lines 118-120 left out.
Min_no_clamp(a, b) == a

Min(a, b) == IF a < b THEN a ELSE b

\* BuildReport with raw_data taken from the sample array back to front.
BuildReport_misaligned(o) ==
    LET max_num == Min(o._channel_count, ReportCapacity)
    IN  [ none       |-> FALSE,
          device_id  |-> BUILTIN_ADC_DEVID,
          channel_id |-> [ i \in 1..max_num |-> o._samples[i].am_channel ]
                         \o [ i \in 1..(PX4_MAX_ADC_CHANNELS - max_num) |-> -1 ],
          raw_data   |-> [ i \in 1..max_num |-> o._samples[max_num + 1 - i].am_data ]
                         \o [ i \in 1..(ReportCapacity - max_num) |-> << 0, 0 >> ] ]

\* BuildReport without the loop of lines 129-131: the unused channel ids
\* keep the 0 of adc{}.
BuildReport_no_fill(o) ==
    LET max_num == Min(o._channel_count, ReportCapacity)
    IN  [ none       |-> FALSE,
          device_id  |-> BUILTIN_ADC_DEVID,
          channel_id |-> [ i \in 1..max_num |-> o._samples[i].am_channel ]
                         \o [ i \in 1..(PX4_MAX_ADC_CHANNELS - max_num) |-> 0 ],
          raw_data   |-> [ i \in 1..max_num |-> o._samples[i].am_data ]
                         \o [ i \in 1..(ReportCapacity - max_num) |-> << 0, 0 >> ] ]

\* Lines 113-131: adc{} is zeroed; the first loop copies max_num samples
\* and the second sets the channel ids from there up to PX4_MAX_ADC_CHANNELS
\* to -1.  A write past ReportCapacity shows as a longer array.
BuildReport(o) ==
    LET max_num == Min(o._channel_count, ReportCapacity)
    IN  [ none       |-> FALSE,
          device_id  |-> BUILTIN_ADC_DEVID,
          channel_id |-> [ i \in 1..max_num |-> o._samples[i].am_channel ]
                         \o [ i \in 1..(PX4_MAX_ADC_CHANNELS - max_num) |-> -1 ],
          raw_data   |-> [ i \in 1..max_num |-> o._samples[i].am_data ]
                         \o [ i \in 1..(ReportCapacity - max_num) |-> << 0, 0 >> ] ]

\* Run without the check of should_exit at lines 101-104.
Run_begin_ignores_exit(id) ==
    /\ wq.pc = "idle"
    /\ objs[id].scheduled
    /\ wq' = [ WqIdle EXCEPT !.pc = "sample", !.self = id ]
    /\ UNCHANGED << board, objs, _object, _task_id, lock, cpc, loc, last,
                    adc_report, timeouts >>

\* Run returning on should_exit without the exit_and_cleanup of line 102.
Run_begin_returns_on_exit(id) ==
    /\ wq.pc = "idle"
    /\ objs[id].scheduled
    /\ wq' = IF objs[id]._task_should_exit
             THEN [ WqIdle EXCEPT !.pc = "perf_end", !.self = id ]
             ELSE [ WqIdle EXCEPT !.pc = "sample", !.self = id ]
    /\ UNCHANGED << board, objs, _object, _task_id, lock, cpc, loc, last,
                    adc_report, timeouts >>

\* The scheduler invokes Run of a scheduled work item: line 101.
Run_begin(id) ==
    /\ wq.pc = "idle"
    /\ objs[id].scheduled
    /\ wq' = IF objs[id]._task_should_exit
             THEN [ WqIdle EXCEPT !.pc = "exit", !.self = id ]
             ELSE [ WqIdle EXCEPT !.pc = "sample", !.self = id ]
    /\ UNCHANGED << board, objs, _object, _task_id, lock, cpc, loc, last,
                    adc_report, timeouts >>

\* One iteration of the loop of lines 109-111.
Run_sample ==
    /\ wq.pc = "sample"
    /\ wq.i < objs[wq.self]._channel_count
    /\ \E result \in SampleValues :
         LET ch == objs[wq.self]._samples[wq.i + 1].am_channel
             r  == sample(result)
         IN
         /\ result = UINT32_MAX => timeouts < MaxTimeouts
         /\ timeouts' = IF result = UINT32_MAX THEN timeouts + 1 ELSE timeouts
         /\ objs' = [objs EXCEPT ![wq.self]._samples[wq.i + 1].am_data = r.value]
         /\ wq' = [wq EXCEPT !.i = @ + 1,
                             !.reads = Append(@, [ channel |-> ch, result |-> result,
                                                   timeout_logged |-> r.timeout_logged ])]
    /\ UNCHANGED << board, _object, _task_id, lock, cpc, loc, last, adc_report >>

\* Run with the sampling loop of lines 109-111 bounded by the capacity of
\* the report instead of _channel_count.
Run_publish_at_capacity ==
    /\ wq.pc = "sample"
    /\ wq.i >= Min(objs[wq.self]._channel_count, ReportCapacity)
    /\ adc_report' = BuildReport(objs[wq.self])
    /\ loc' = IF loc.sub = "none" THEN loc ELSE [loc EXCEPT !.sub = "fresh"]
    /\ wq' = [wq EXCEPT !.pc = "perf_end"]
    /\ UNCHANGED << board, objs, _object, _task_id, lock, cpc, last, timeouts >>

\* Lines 113-136.
Run_publish ==
    /\ wq.pc = "sample"
    /\ wq.i >= objs[wq.self]._channel_count
    /\ adc_report' = BuildReport(objs[wq.self])
    /\ loc' = IF loc.sub = "none" THEN loc ELSE [loc EXCEPT !.sub = "fresh"]
    /\ wq' = [wq EXCEPT !.pc = "perf_end"]
    /\ UNCHANGED << board, objs, _object, _task_id, lock, cpc, last, timeouts >>

\* Line 138.
Run_end ==
    /\ wq.pc = "perf_end"
    /\ wq' = WqIdle
    /\ UNCHANGED << board, objs, _object, _task_id, lock, cpc, loc, last,
                    adc_report, timeouts >>

\* ModuleBase<ADC>::exit_and_cleanup, called at line 102: under the module
\* lock, delete _object, clear it, and clear _task_id.
exit_and_cleanup ==
    /\ wq.pc = "exit"
    /\ lock = "free"
    /\ objs' = Delete(objs, _object)
    /\ _object' = nullptr
    /\ _task_id' = -1
    /\ wq' = WqIdle
    /\ UNCHANGED << board, lock, cpc, loc, last, adc_report, timeouts >>

Next ==
    \/ \E t \in Threads : start_command_base(t)
    \/ \E t \in Threads : task_spawn_init(t)
    \/ \E t \in Threads : task_spawn_ok(t)
    \/ \E t \in Threads : task_spawn_fail(t)
    \/ \E t \in Threads : stop_command(t)
    \/ \E t \in Threads : stop_wait(t)
    \/ \E t \in Threads : main_custom(t)
    \/ \E t \in Threads : test_first_update(t)
    \/ \E t \in Threads : test_iteration(t)
    \/ \E id \in Ids : Run_begin(id)
    \/ Run_sample
    \/ Run_publish
    \/ Run_end
    \/ exit_and_cleanup

Spec == Init /\ [][Next]_vars

(***************************************************************************)
(* The same program under the scheduling it runs with: the work queue      *)
(* keeps delivering the ticks of a scheduled item and carries a cycle it   *)
(* has begun to its end; a command that holds the module lock runs to its  *)
(* return; and the teardown, which waits for the module lock, gets it once *)
(* it is released often enough.  Nobody is obliged to issue a command.     *)
(* Stopping does not depend on the channels, so the behaviours are those   *)
(* of one board, the one with the requested channels 2 and 5.              *)
(***************************************************************************)
Fairness ==
    /\ WF_vars(\E id \in Ids : Run_begin(id))
    /\ WF_vars(Run_sample)
    /\ WF_vars(Run_publish)
    /\ WF_vars(Run_end)
    /\ SF_vars(exit_and_cleanup)
    /\ WF_vars(\E t \in Threads : task_spawn_init(t))
    /\ WF_vars(\E t \in Threads : task_spawn_ok(t))
    /\ WF_vars(\E t \in Threads : task_spawn_fail(t))
    /\ WF_vars(\E t \in Threads : test_first_update(t))
    /\ WF_vars(\E t \in Threads : test_iteration(t))

FairInit == Init /\ board.ADC_CHANNELS = MaskOf({2, 5})

FairSpec == FairInit /\ [][Next]_vars /\ Fairness

(***************************************************************************)
(* What the masks of the board mean, stated without the driver's loops.    *)
(***************************************************************************)
\* The channels of requested | always-on, within the channel universe.
ConfiguredSet ==
    { c \in 0..(ADC_TOTAL_CHANNELS - 1) :
        board.ADC_CHANNELS[c] \/ board.temp_sensor_mask[c] }

Live == { id \in Ids : objs[id].st = "live" }

StrictlyAscending(seq) ==
    \A i, j \in 1..Len(seq) : i < j => seq[i] < seq[j]

\* C4: the sample set built by the constructor has one slot per set bit of
\* (requested | always-on): its length and _channel_count are the popcount,
\* its channel ids are exactly those bits, unique and strictly ascending,
\* and, until init() has been called, every raw value is 0.
C4_SampleSetOfMask ==
    \A id \in Live :
        LET o   == objs[id]
            ids == [ i \in 1..Len(o._samples) |-> o._samples[i].am_channel ]
        IN  /\ o._channel_count = Cardinality(ConfiguredSet)
            /\ Len(o._samples) = Cardinality(ConfiguredSet)
            /\ { ids[i] : i \in 1..Len(ids) } = ConfiguredSet
            /\ StrictlyAscending(ids)
            /\ o.hw = "none" =>
                   \A i \in 1..Len(o._samples) : o._samples[i].am_data = << 0, 0 >>

\* C4 witness: a freshly constructed object on the board whose requested
\* mask already holds the always-on bit (4 channels of 5 mask bits given).
C4_Witness ==
    /\ board.ADC_CHANNELS = MaskOf({1, 2, 5, 10})
    /\ \E id \in Live : objs[id].hw = "none" /\ objs[id]._channel_count = 4

RECURSIVE SortedSeq(_)
SortedSeq(S) ==
    IF S = {} THEN << >>
    ELSE LET m == CHOOSE x \in S : \A y \in S : x <= y
         IN  << m >> \o SortedSeq(S \ {m})

\* The configured channel list: the channels of the masks, ascending.
ConfiguredIds == SortedSeq(ConfiguredSet)

\* min(configured channel count, MAX_SUPPORTED_CHANNELS)
Reported == Min(Cardinality(ConfiguredSet), PX4_MAX_ADC_CHANNELS)

NotSentinel(c) == c # -1

\* C5: in every published report the non-sentinel channel ids have no
\* duplicates and are the first min(channel_count, PX4_MAX_ADC_CHANNELS) ids
\* of the configured list, in its order; and when Run has just published,
\* each such slot's raw_data is the value read for that channel in this
\* cycle, the cycle having read the channel once.
C5_ReportChannels ==
    /\ ~adc_report.none =>
          LET ns == SelectSeq(adc_report.channel_id, NotSentinel)
          IN  /\ ns = SubSeq(ConfiguredIds, 1, Reported)
              /\ Cardinality({ ns[i] : i \in 1..Len(ns) }) = Len(ns)
    /\ wq.pc = "perf_end" =>
          \A i \in 1..Len(adc_report.channel_id) :
              adc_report.channel_id[i] # -1 =>
                  /\ i <= Len(adc_report.raw_data)
                  /\ \E k \in 1..Len(wq.reads) :
                        /\ wq.reads[k].channel = adc_report.channel_id[i]
                        /\ wq.reads[k].result = adc_report.raw_data[i]
                        /\ \A k2 \in 1..Len(wq.reads) :
                              wq.reads[k2].channel = adc_report.channel_id[i] => k2 = k

\* C5 witness: Run has just published the report of a cycle in which the
\* second channel timed out and the first did not.
C5_Witness ==
    /\ wq.pc = "perf_end"
    /\ Len(wq.reads) >= 3
    /\ wq.reads[1].result # UINT32_MAX
    /\ wq.reads[2].result = UINT32_MAX
    /\ adc_report.raw_data[2] = UINT32_MAX

\* C6: in every published report, with n = min(configured channel count,
\* PX4_MAX_ADC_CHANNELS), no slot below n holds -1 and every slot from n to
\* PX4_MAX_ADC_CHANNELS holds -1; on the board that requests channels 2 and
\* 5 with always-on channel 10 the channel ids are 2, 5, 10, then -1.
C6_SentinelPadding ==
    ~adc_report.none =>
        /\ Len(adc_report.channel_id) = PX4_MAX_ADC_CHANNELS
        /\ \A i \in 1..PX4_MAX_ADC_CHANNELS :
              /\ i <= Reported => adc_report.channel_id[i] # -1
              /\ i > Reported => adc_report.channel_id[i] = -1
        /\ ( board.ADC_CHANNELS = MaskOf({2, 5})
             /\ board.temp_sensor_mask = MaskOf({10}) ) =>
               /\ SubSeq(adc_report.channel_id, 1, 3) = << 2, 5, 10 >>
               /\ \A i \in 4..PX4_MAX_ADC_CHANNELS : adc_report.channel_id[i] = -1

\* C6 witness: the report of the board {2, 5} with always-on channel 10.
C6_Witness ==
    /\ board.ADC_CHANNELS = MaskOf({2, 5})
    /\ ~adc_report.none
    /\ adc_report.channel_id[3] = 10
    /\ adc_report.channel_id[PX4_MAX_ADC_CHANNELS] = -1

\* C7: with more configured channels than PX4_MAX_ADC_CHANNELS a cycle is
\* never stuck before its publish, a finished cycle has published, the
\* report's arrays keep their length (no write past the end), its channel
\* ids are the first PX4_MAX_ADC_CHANNELS configured channels, and no
\* channel beyond them is in any slot.
C7_Truncation ==
    Cardinality(ConfiguredSet) > PX4_MAX_ADC_CHANNELS =>
        /\ wq.pc = "sample" => ENABLED (Run_sample \/ Run_publish)
        /\ wq.pc = "perf_end" => ~adc_report.none
        /\ ~adc_report.none =>
              /\ Len(adc_report.channel_id) = PX4_MAX_ADC_CHANNELS
              /\ Len(adc_report.raw_data) = PX4_MAX_ADC_CHANNELS
              /\ adc_report.channel_id = SubSeq(ConfiguredIds, 1, PX4_MAX_ADC_CHANNELS)
              /\ \A i \in 1..Len(adc_report.channel_id) :
                    \A k \in (PX4_MAX_ADC_CHANNELS + 1)..Len(ConfiguredIds) :
                        adc_report.channel_id[i] # ConfiguredIds[k]

\* C7 witness: a cycle over more channels than the report holds has read
\* them all and published.
C7_Witness ==
    /\ wq.pc = "perf_end"
    /\ objs[wq.self]._channel_count > PX4_MAX_ADC_CHANNELS
    /\ Len(wq.reads) = objs[wq.self]._channel_count
    /\ ~adc_report.none

\* C8: every value a read of the running cycle returned, the timeout
\* sentinel included, is stored unchanged in that channel's sample; each
\* channel is read once, in order (no retry); after a timeout the cycle is
\* not stuck; and the published report of the cycle holds the sentinel as
\* raw_data of every timed-out channel within the report's capacity.
C8_TimeoutStored ==
    wq.pc \in {"sample", "perf_end"} =>
        LET o == objs[wq.self] IN
        /\ Len(wq.reads) = wq.i
        /\ \A k \in 1..Len(wq.reads) :
              /\ wq.reads[k].channel = o._samples[k].am_channel
              /\ o._samples[k].am_data = wq.reads[k].result
        /\ wq.pc = "sample" => ENABLED (Run_sample \/ Run_publish)
        /\ wq.pc = "perf_end" =>
              /\ Len(wq.reads) = o._channel_count
              /\ ~adc_report.none
              /\ \A k \in 1..Min(o._channel_count, PX4_MAX_ADC_CHANNELS) :
                    wq.reads[k].result = UINT32_MAX =>
                        /\ adc_report.channel_id[k] = wq.reads[k].channel
                        /\ adc_report.raw_data[k] = UINT32_MAX

\* C8 witness: the first read of a cycle timed out, the cycle went on to
\* read the other channels and published the sentinel in slot 0.
C8_Witness ==
    /\ wq.pc = "perf_end"
    /\ Len(wq.reads) > 1
    /\ wq.reads[1].result = UINT32_MAX
    /\ wq.reads[1].timeout_logged
    /\ adc_report.raw_data[1] = UINT32_MAX

\* C1: at most one ADC object is live, and it is the one _object refers
\* to: no start, whatever the commands and ticks before it, leaves a second
\* engine beside a live one or makes _object refer to another object.
C1_SingleInstance ==
    /\ Cardinality(Live) <= 1
    /\ \A id \in Live : _object = id
    /\ _object # nullptr => _object \in Live
    /\ last.msg = "Task already running" => last.verb = "start" /\ last.ret # 0

\* C1 witness: a start was refused as already running, and the engine
\* started before it is the live, scheduled one.
C1_Witness ==
    /\ last.msg = "Task already running"
    /\ Live = {1}
    /\ _object = 1
    /\ objs[1].scheduled
    /\ objs[2].st = "unalloc"

\* C2 as claimed: a command other than start, stop and test reports "unknown
\* command" and returns a non-zero result.
C2_UnknownCommandFails ==
    last.verb = "calibrate" => last.msg = "unknown command" /\ last.ret # 0

\* C2, the part the code keeps: such a command reports "unknown command"
\* and changes nothing of the controller, the engine, or the schedule.
C2_UnknownCommandNoEffect ==
    [][ (last' # last /\ last'.verb = "calibrate") =>
            /\ last'.msg = "unknown command"
            /\ UNCHANGED << board, objs, _object, _task_id, lock, cpc, loc, wq,
                            adc_report, timeouts >> ]_vars

\* C3: an object whose init() failed is never scheduled and never run, and
\* exists only inside the start that made it; when that start has returned
\* it has returned an error, no object is live, _object is null and
\* _task_id is -1; and no object that is not live is scheduled or run.
C3_InitFailure ==
    /\ \A id \in Ids :
          objs[id].hw = "failed" =>
              /\ ~objs[id].scheduled
              /\ wq.self # id
              /\ \E t \in Threads :
                    cpc[t] = "spawn_fail" /\ lock = t /\ loc.instance = id
    /\ \A id \in Ids :
          objs[id].st # "live" => ~objs[id].scheduled /\ wq.self # id
    /\ last.msg = "arch adc init failed" =>
          /\ last.verb = "start"
          /\ last.ret = PX4_ERROR
          /\ last.ret # PX4_OK
          /\ Live = {}
          /\ _object = nullptr
          /\ _task_id = -1
          /\ \A id \in Ids : objs[id].st = "deleted" => objs[id].uninits = 1

\* C3 witness: a start has returned after a failed init, and the object it
\* had constructed is destroyed.
C3_Witness ==
    /\ last.msg = "arch adc init failed"
    /\ objs[1].st = "deleted"
    /\ adc_report.none

\* C9: while no engine is running (and so no command holds the lock), no
\* thread enters ADC::test, and a test command returns in the step it is
\* issued, with a non-zero result, with no subscription made and nothing
\* else changed.
C9_TestNotRunning ==
    [][ (lock = "free" /\ ~is_running) =>
            /\ \A t \in Threads : cpc'[t] \notin {"test_sleep", "test_loop"}
            /\ (last' # last /\ last'.verb = "test") =>
                  /\ last'.ret # 0
                  /\ loc'.sub = "none"
                  /\ UNCHANGED << board, objs, _object, _task_id, lock, cpc, loc, wq,
                                  adc_report, timeouts >> ]_vars

\* C9 witness: a test has returned PX4_ERROR with no engine running.
C9_Witness ==
    /\ last.verb = "test"
    /\ last.ret = PX4_ERROR
    /\ ~is_running
    /\ Live = {}

\* C10: a tick that finds the shutdown requested goes to teardown and
\* changes neither a sample nor the published report; while it waits to
\* tear down nothing is read or published; the teardown destroys the very
\* object that ran and ends its schedule; and no tick starts on an object
\* that is not live.
C10_ExitTick ==
    [][ /\ \A id \in Ids :
              (wq.pc = "idle" /\ wq'.pc # "idle" /\ wq'.self = id) =>
                  /\ objs[id].st = "live"
                  /\ objs[id]._task_should_exit =>
                        /\ wq'.pc = "exit"
                        /\ UNCHANGED << objs, adc_report, timeouts >>
        /\ wq.pc = "exit" =>
              /\ wq'.pc \in {"exit", "idle"}
              /\ adc_report' = adc_report
              /\ timeouts' = timeouts
              /\ \A id \in Ids :
                    objs'[id].st = "live" => objs'[id]._samples = objs[id]._samples
              /\ wq'.pc = "idle" =>
                    /\ objs'[wq.self].st = "deleted"
                    /\ ~objs'[wq.self].scheduled
                    /\ Live' = {}
      ]_vars

\* C10 witness: after at least one published report, a tick has found the
\* shutdown requested and is about to tear down.
C10_Witness ==
    /\ wq.pc = "exit"
    /\ objs[wq.self]._task_should_exit
    /\ ~adc_report.none

(***************************************************************************)
(* The steps of ADC::test, seen from outside: InTest(t) is a thread        *)
(* inside test(), TestStep(t) a step that test() itself takes.             *)
(***************************************************************************)
InTest(t) == cpc[t] \in {"test_sleep", "test_loop"}

TestStep(t) ==
    /\ InTest(t)
    /\ \/ cpc'[t] # cpc[t]
       \/ loc'.l # loc.l

TestReturns(t) == InTest(t) /\ cpc'[t] = "idle"

(***************************************************************************)
(* C11: the self-test always terminates: a thread inside test() can always *)
(* take its next step and the loop counter only grows, up to 20.  It       *)
(* returns non-zero exactly when the first poll finds no report; otherwise *)
(* it runs 20 iterations, a failed poll being flagged and the loop going   *)
(* on, and returns 0.                                                      *)
(***************************************************************************)
C11_TestProgress ==
    \A t \in Threads :
        /\ cpc[t] = "test_sleep" => loc.l = 0 /\ ENABLED test_first_update(t)
        /\ cpc[t] = "test_loop" =>
               loc.l \in 0..TestIterations /\ ENABLED test_iteration(t)

C11_TestSteps ==
    \A t \in Threads :
        /\ (cpc[t] = "test_sleep" /\ TestStep(t)) =>
               IF loc.sub = "fresh"
               THEN cpc'[t] = "test_loop" /\ loc'.l = 0 /\ last' = last
               ELSE /\ TestReturns(t)
                    /\ last'.verb = "test" /\ last'.ret # 0
        /\ (cpc[t] = "test_loop" /\ TestStep(t)) =>
               IF loc.l < TestIterations
               THEN /\ cpc'[t] = "test_loop" /\ loc'.l = loc.l + 1
                    /\ last' = last
                    /\ loc'.failed = (loc.failed \/ loc.sub # "fresh")
               ELSE /\ TestReturns(t)
                    /\ last'.verb = "test" /\ last'.ret = 0
        /\ (TestReturns(t) /\ last'.ret = 0) =>
               cpc[t] = "test_loop" /\ loc.l = TestIterations

C11_SelfTest == [] C11_TestProgress /\ [][C11_TestSteps]_vars

\* A test that has returned 0 although one of its polls failed.
C11_Witness ==
    /\ last.verb = "test" /\ last.ret = 0
    /\ last.msg = "ADC test failed. ADC test successful."

(***************************************************************************)
(* C12: the self-test changes no engine state and publishes nothing: the   *)
(* step that enters test() and every step test() takes, whatever engine    *)
(* cycles run in between, leave the objects (sample sets, schedule), the   *)
(* controller's instance reference and task id, the work queue and the     *)
(* published report as they are.                                           *)
(***************************************************************************)
C12_TestFrame ==
    \A t \in Threads :
        (TestStep(t) \/ (cpc[t] = "idle" /\ InTest(t)'))
            => UNCHANGED << objs, _object, _task_id, wq, adc_report, board >>

C12_TestReadOnly == [][C12_TestFrame]_vars

\* The self-test in its loop while a cycle of the engine is under way.
C12_Witness ==
    \E t \in Threads :
        /\ cpc[t] = "test_loop" /\ loc.l >= 2
        /\ wq.pc = "sample" /\ wq.i >= 1
        /\ ~ adc_report.none

(***************************************************************************)
(* C13: a tick that does not see the shutdown request reads every          *)
(* configured channel once, those beyond the capacity of the report        *)
(* included, in ascending order, and then publishes once: the reads of a   *)
(* cycle are at every moment a prefix of the configured list, the publish  *)
(* is the step that follows the last read, it is the only step that        *)
(* changes the report, and the cycle ends after it without another one.    *)
(***************************************************************************)
ReadChannels == [ k \in 1..Len(wq.reads) |-> wq.reads[k].channel ]

C13_ReadsSoFar ==
    /\ wq.pc = "sample" =>
          /\ Len(wq.reads) <= Len(ConfiguredIds)
          /\ ReadChannels = SubSeq(ConfiguredIds, 1, Len(wq.reads))
          /\ ENABLED Run_sample \/ ENABLED Run_publish
    /\ wq.pc = "perf_end" =>
          /\ ReadChannels = ConfiguredIds
          /\ ENABLED Run_end

C13_CycleSteps ==
    /\ (wq.pc = "idle" /\ wq'.pc = "sample") =>
          ~ objs[wq'.self]._task_should_exit /\ wq'.reads = << >>
    /\ (wq.pc = "sample" /\ wq' # wq) =>
          \/ /\ wq'.pc = "sample"
             /\ Len(wq'.reads) = Len(wq.reads) + 1
             /\ adc_report' = adc_report
          \/ /\ wq'.pc = "perf_end"
             /\ wq'.reads = wq.reads
             /\ ReadChannels = ConfiguredIds
             /\ adc_report' = BuildReport(objs[wq.self])
    /\ (wq.pc = "perf_end" /\ wq' # wq) =>
          wq'.pc = "idle" /\ adc_report' = adc_report
    /\ adc_report' # adc_report => wq.pc = "sample" /\ wq'.pc = "perf_end"

C13_ReadAllThenPublish == [] C13_ReadsSoFar /\ [][C13_CycleSteps]_vars

\* A cycle that has published after reading more channels than the report
\* holds.
C13_Witness ==
    /\ wq.pc = "perf_end"
    /\ Len(wq.reads) > ReportCapacity
    /\ Len(wq.reads) = objs[wq.self]._channel_count

(***************************************************************************)
(* C14: test() only ever runs on an object whose init() has succeeded and  *)
(* that is not deleted.  task_spawn stores _object and _task_id before it  *)
(* calls init(), so the module reads as running while the object is not    *)
(* initialised, or while it waits for its deletion after a failed init;    *)
(* every such state is inside a start command that holds the module lock,  *)
(* and a command that finds the lock free and the module running finds an  *)
(* initialised, live object.                                               *)
(***************************************************************************)
Initialised(id) == id \in Live /\ objs[id].hw = "ok"

C14_TestOnInitialised ==
    /\ \A t \in Threads :
          InTest(t) => /\ lock = t
                       /\ loc.instance = _object
                       /\ Initialised(loc.instance)
    /\ (is_running /\ lock = "free") => Initialised(_object)
    /\ (is_running /\ ~ Initialised(_object)) =>
          \E t \in Threads :
              /\ lock = t
              /\ cpc[t] \in {"spawn_init", "spawn_fail"}
              /\ loc.instance = _object
              /\ \A u \in Threads \ {t} : ~ InTest(u)

\* C14 as worded: whenever the module reads as running (_task_id set,
\* _object stored), the stored object has been initialised and is not
\* awaiting deletion.  Lines 208-211 store before init() is called.
C14_RunningMeansInitialised == is_running => Initialised(_object)

\* test() at work on an engine that has been told to stop, whose teardown
\* is waiting for the lock test() holds.
C14_Witness ==
    \E t \in Threads :
        /\ cpc[t] = "test_loop" /\ loc.l >= 1
        /\ wq.pc = "exit"
        /\ objs[loc.instance]._task_should_exit

(***************************************************************************)
(* C15: once stop has set the exit request of the running engine, and the  *)
(* work queue keeps delivering ticks, the engine is eventually torn down   *)
(* and the controller forgets it: the object is deleted, _object is null   *)
(* and _task_id is -1.  From a stopped module a test is refused with an    *)
(* error and a start is not refused as "already running".                  *)
(***************************************************************************)
StopRequested == \E id \in Live : objs[id]._task_should_exit

Stopped == Live = {} /\ _object = nullptr /\ _task_id = -1

C15_FromStopped ==
    \A t \in Threads :
        (Stopped /\ cpc[t] = "idle" /\ cpc' # cpc) =>
            /\ cpc'[t] # "test_sleep"
            /\ (cpc'[t] = "idle" /\ last'.verb = "test") => last'.ret = PX4_ERROR
            /\ last'.msg # "Task already running"

C15_StopTerminates ==
    /\ StopRequested ~> Stopped
    /\ [][C15_FromStopped]_vars

\* The module stopped by a stop command that is still waiting to return.
C15_Witness ==
    /\ Stopped
    /\ \E t \in Threads : cpc[t] = "stop_wait"

(***************************************************************************)
(* C16: an object is on the schedule only after its hardware init has      *)
(* returned success, with kINTERVAL both as the delay of the first run and *)
(* as the period, and it is then the one live object, stored in _object,   *)
(* the module reading as running; init() returns PX4_OK only with the      *)
(* object on the schedule, and a start that has returned PX4_OK has left   *)
(* the module in that state; and Run only ever runs on an object whose     *)
(* hardware init has succeeded.                                            *)
(***************************************************************************)
Started(id) ==
    /\ Live = {id}
    /\ _object = id
    /\ _task_id = task_id_is_work_queue
    /\ objs[id].hw = "ok"
    /\ objs[id].scheduled
    /\ objs[id].interval_us = kINTERVAL
    /\ objs[id].delay_us = objs[id].interval_us

C16_StartSuccess ==
    /\ \A id \in Ids : objs[id].scheduled => Started(id)
    /\ \A id \in Ids : objs[id].hw = "ok" => objs[id].scheduled
    /\ \A t \in Threads :
          cpc[t] = "spawn_ok" =>
              lock = t /\ loc.instance = _object /\ Started(loc.instance)
    /\ (last.verb = "start" /\ last.ret = PX4_OK) =>
          _object # nullptr /\ Started(_object)
    /\ wq.self # nullptr => objs[wq.self].hw = "ok"

\* C16 as worded: an object is on the schedule only when the init() that
\* put it there has returned.  ScheduleOnInterval is line 94 of init(), its
\* return line 96.
InsideInit(id) ==
    \E t \in Threads :
        cpc[t] \in {"spawn_init", "spawn_ok"} /\ loc.instance = id

C16_InitReturnedBeforeSchedule ==
    \A id \in Ids : objs[id].scheduled => ~ InsideInit(id)

\* A start has returned PX4_OK and the engine is in a cycle.
C16_Witness ==
    /\ last.verb = "start" /\ last.ret = PX4_OK
    /\ wq.pc = "sample" /\ wq.self = _object

(***************************************************************************)
(* C17: with more channels configured than PX4_MAX_ADC_CHANNELS the        *)
(* constructor logs the error, and only then, and goes on: the object is   *)
(* built with _channel_count the full number of configured channels, above *)
(* the maximum, and one sample slot for each of them; nothing later looks  *)
(* at the error, so the object is initialised and scheduled as any other.  *)
(***************************************************************************)
OverCapacity == Cardinality(ConfiguredSet) > PX4_MAX_ADC_CHANNELS

C17_OverCapacityProceeds ==
    \A id \in Live :
        LET o == objs[id] IN
        /\ o.too_small_logged = OverCapacity
        /\ o.too_small_logged =>
              /\ o._channel_count = Cardinality(ConfiguredSet)
              /\ o._channel_count > PX4_MAX_ADC_CHANNELS
              /\ Len(o._samples) = o._channel_count
              /\ { o._samples[i].am_channel : i \in 1..Len(o._samples) }
                    = ConfiguredSet
              /\ o.hw = "none" =>
                    \E t \in Threads : cpc[t] = "spawn_init" /\ ENABLED task_spawn_init(t)
              /\ o.hw = "ok" => o.scheduled

\* A start that has returned PX4_OK with more channels than the maximum,
\* the error logged, and the engine in a cycle past the maximum.
C17_Witness ==
    /\ OverCapacity
    /\ last.verb = "start" /\ last.ret = PX4_OK
    /\ _object # nullptr
    /\ objs[_object].too_small_logged /\ objs[_object].scheduled
    /\ wq.pc = "sample" /\ wq.i > PX4_MAX_ADC_CHANNELS

(***************************************************************************)
(* C18: the destructor takes the object off the schedule before it frees   *)
(* the sample array and before it uninitialises the hardware, each of the  *)
(* three done once; a destroyed object is on no schedule, so Run never     *)
(* runs on an object that is destroyed, whose samples are freed or whose   *)
(* hardware is not initialised; and every destroyed object, the one whose  *)
(* init() failed included, has had px4_arch_adc_uninit called once.        *)
(***************************************************************************)
Once(seq, x) == Cardinality({ i \in 1..Len(seq) : seq[i] = x }) = 1

Before(seq, x, y) ==
    \E i, j \in 1..Len(seq) : i < j /\ seq[i] = x /\ seq[j] = y

C18_Teardown ==
    /\ \A id \in Ids :
          objs[id].st = "deleted" =>
              LET o == objs[id] IN
              /\ Once(o.teardown, "ScheduleClear")
              /\ Once(o.teardown, "delete _samples")
              /\ Once(o.teardown, "px4_arch_adc_uninit")
              /\ Before(o.teardown, "ScheduleClear", "delete _samples")
              /\ Before(o.teardown, "ScheduleClear", "px4_arch_adc_uninit")
              /\ ~ o.scheduled
              /\ o.uninits = 1
              /\ o.hw = "uninit"
    /\ \A id \in Live :
          /\ objs[id].uninits = 0
          /\ objs[id].teardown = << >>
          /\ objs[id].hw # "uninit"
          /\ Len(objs[id]._samples) = objs[id]._channel_count
    /\ wq.self # nullptr =>
          /\ wq.self \in Live
          /\ objs[wq.self].hw = "ok"
    /\ wq.pc = "sample" /\ wq.i < objs[wq.self]._channel_count =>
          wq.i + 1 \in DOMAIN objs[wq.self]._samples
    /\ \A t \in Threads :
          cpc[t] = "spawn_fail" =>
              /\ objs[loc.instance].hw = "failed"
              /\ objs[loc.instance].uninits = 0

\* An engine that has run cycles and has been destroyed by its teardown,
\* the stop command back.
C18_Witness ==
    /\ last.verb = "stop"
    /\ Live = {}
    /\ \E id \in Ids : objs[id].st = "deleted" /\ objs[id].uninits = 1
    /\ ~ adc_report.none
    /\ wq.pc = "idle"

====
